---- MODULE Spec2Model ----
(***************************************************************************)
(* Hospital admissions forecasting dashboard (src/app.py).                 *)
(*                                                                         *)
(* One run of the Streamlit script main() is modelled block by block:      *)
(* load_user_data, load_and_prepare_data, forecast_sarima, the bed         *)
(* occupancy column, the material column and save_user_data.               *)
(*                                                                         *)
(* Dates are day numbers counted from 1 January of BaseYear (day 0), on    *)
(* the Gregorian calendar.  Forecast values are reals in the program; here *)
(* they are fixed-point numbers, an integer count of 1/Scale units.        *)
(***************************************************************************)
EXTENDS Integers, Sequences, FiniteSets, TLC

VARIABLES
    records,          \* rows of the admissions CSV (the two selected columns, raw cells)
    today,            \* datetime.now().date(), a day number
    file,             \* user_data.csv: whether it exists, and the rows it holds
    pc,               \* position of the script run in main()
    exc,              \* the exception that ended the run, "none" if none
    user_data,        \* main()'s user_data DataFrame, a sequence of rows
    df_monthly,       \* load_and_prepare_data: the per-day sums (line 35)
    df_monthly_agg,   \* the monthly series returned by load_and_prepare_data
    forecast_steps,   \* the slider's value
    forecast,         \* forecast_sarima's first result: None or the predicted means
    st_error,         \* st.error was shown by forecast_sarima
    lits_disponibles, \* the capacity number input's value
    crise,            \* main()'s crise flag
    st_warning,       \* the months named by st.warning in this run, in order
    st_success,       \* st.success ("Prévision stable") was shown
    ratios,           \* the four number inputs of the material column
    totals            \* the four totals shown by st.markdown, if they were shown

vars == <<records, today, file, pc, exc, user_data, df_monthly,
          df_monthly_agg, forecast_steps, forecast, st_error, lits_disponibles,
          crise, st_warning, st_success, ratios, totals>>

-----------------------------------------------------------------------------
(* Bounds of the model *)

MaxRecords == 2      \* rows in the admissions CSV
MaxStay == 2         \* largest stay length in a row
MaxSteps == 2        \* largest forecast horizon tried (the slider allows 1..24)
Scale == 10          \* forecast values are counted in 1/Scale units

\* The data file covers 2021-2025.
BaseYear == 2021

-----------------------------------------------------------------------------
(* The calendar pandas computes with *)

IsLeapYear(y) == (y % 4 = 0 /\ y % 100 # 0) \/ y % 400 = 0

DaysInMonth(y, m) ==
    IF m = 2 THEN (IF IsLeapYear(y) THEN 29 ELSE 28)
    ELSE IF m \in {4, 6, 9, 11} THEN 30 ELSE 31

\* Months are numbered from 0 = January of BaseYear.
YearOf(a) == BaseYear + (a \div 12)
MonthNo(a) == (a % 12) + 1

RECURSIVE MonthStart(_)
MonthStart(a) ==
    IF a = 0 THEN 0
    ELSE MonthStart(a - 1) + DaysInMonth(YearOf(a - 1), MonthNo(a - 1))

\* The 'ME' label of month a: its last day.
MonthEnd(a) == MonthStart(a + 1) - 1

MonthOf(d) == CHOOSE a \in 0..(d \div 28) : MonthStart(a) <= d /\ d <= MonthEnd(a)

-----------------------------------------------------------------------------
(* Column coercion, lines 22-23 *)

\* pd.NaT, distinct from every day number of the model (all are >= 0).
NaT == -1

\* pd.to_datetime(..., errors='coerce') of one cell: a year-month-day text
\* naming a day of the calendar becomes that day, anything else NaT.
ToDatetime(cell) ==
    IF /\ cell.fmt = "ymd"
       /\ cell.y >= BaseYear
       /\ cell.m \in 1..12
       /\ cell.d \in 1..DaysInMonth(cell.y, cell.m)
    THEN MonthStart((cell.y - BaseYear) * 12 + (cell.m - 1)) + (cell.d - 1)
    ELSE NaT

\* pd.to_numeric(..., errors='coerce') of one cell: NaN unless the text is a number.
ToNumeric(cell) ==
    IF cell.fmt = "num" THEN [na |-> FALSE, v |-> cell.v] ELSE [na |-> TRUE, v |-> 0]

\* .fillna(0)
FillNa0(x) == IF x.na THEN 0 ELSE x.v

\* The data frame after lines 22-23.
Coerce(rows) ==
    [i \in 1..Len(rows) |->
        [date |-> ToDatetime(rows[i].date), stay |-> FillNa0(ToNumeric(rows[i].stay))]]

-----------------------------------------------------------------------------
(* Day enumeration and aggregation, lines 25-41 *)

\* A range that also holds the day start + periods.
DateRangeInclusive(start, periods) == [i \in 1..(periods + 1) |-> start + (i - 1)]

\* pd.date_range(start=start, periods=periods, freq='D') for periods >= 0.
DateRange(start, periods) == [i \in 1..periods |-> start + (i - 1)]

\* The loop of lines 26-32 from row i on; acc is nombre_patients_par_mois.
\* pd.date_range raises ValueError for a NaT start; for periods < 0 it raises
\* or yields nothing, depending on the pandas version (negRaises).
RECURSIVE ExpandRows(_, _, _, _)
ExpandRows(df, i, acc, negRaises) ==
    IF i > Len(df) THEN [exc |-> "none", list |-> acc]
    ELSE LET start_date == df[i].date
             duration == df[i].stay
         IN  IF start_date = NaT \/ (duration < 0 /\ negRaises)
             THEN [exc |-> "ValueError", list |-> acc]
             ELSE ExpandRows(df, i + 1, acc \o DateRange(start_date, duration), negRaises)

SeqRange(s) == {s[i] : i \in DOMAIN s}

\* df_patients.groupby('mois').sum(): one row per distinct day, the day's count.
GroupBySum(list) ==
    [d \in SeqRange(list) |-> Cardinality({i \in DOMAIN list : list[i] = d})]

RECURSIVE SumOver(_, _)
SumOver(f, S) ==
    IF S = {} THEN 0
    ELSE LET x == CHOOSE x \in S : TRUE IN f[x] + SumOver(f, S \ {x})

SetMin(S) == CHOOSE x \in S : \A y \in S : x <= y
SetMax(S) == CHOOSE x \in S : \A y \in S : y <= x

\* The sum of the days of month a.
MonthSum(daily, a) == SumOver(daily, {d \in DOMAIN daily : MonthOf(d) = a})

\* An aggregation that emits only the months holding a day.
ResampleSparse(daily) ==
    LET months == {MonthOf(d) : d \in DOMAIN daily}
        Rank(a) == Cardinality({b \in months : b <= a})
    IN  [k \in 1..Cardinality(months) |->
            LET a == CHOOSE a \in months : Rank(a) = k IN
            [mois |-> MonthEnd(a), patients |-> MonthSum(daily, a)]]

\* df_monthly.resample('ME').sum(): one row per calendar month from the month
\* of the first day to the month of the last, labelled by the month's end.
ResampleME(daily) ==
    IF DOMAIN daily = {} THEN <<>>
    ELSE LET lo == MonthOf(SetMin(DOMAIN daily))
             hi == MonthOf(SetMax(DOMAIN daily))
         IN  [k \in 1..(hi - lo + 1) |->
                 [mois |-> MonthEnd(lo + k - 1), patients |-> MonthSum(daily, lo + k - 1)]]

\* A filter that also drops the month ending today.
KeepRowStrict(row, now) == row.mois < now

\* Line 39: df_monthly_agg[df_monthly_agg.index.date <= today].
KeepRow(row, now) == row.mois <= now

FilterToday(agg, now) == SelectSeq(agg, LAMBDA row : KeepRow(row, now))

\* load_and_prepare_data as a whole: the exception it raises, or its result.
\* An empty nombre_patients_par_mois gives a DataFrame with no 'mois' column,
\* and groupby('mois') raises KeyError.
LoadAndPrepareResult(rows, now, negRaises) ==
    LET ex == ExpandRows(Coerce(rows), 1, <<>>, negRaises) IN
    IF ex.exc # "none" THEN [exc |-> ex.exc, daily |-> <<>>, agg |-> <<>>]
    ELSE IF ex.list = <<>> THEN [exc |-> "KeyError", daily |-> <<>>, agg |-> <<>>]
    ELSE LET daily == GroupBySum(ex.list) IN
         [exc |-> "none", daily |-> daily, agg |-> FilterToday(ResampleME(daily), now)]

-----------------------------------------------------------------------------
(* forecast_sarima, lines 45-55 *)

NoForecast == [is_none |-> TRUE, values |-> <<>>]

\* The values a predicted mean takes in the model, in 1/Scale units: a negative
\* one, one between the two thresholds tried, and the two around 90.0.
ForecastValues == {0 - (3 * Scale + 5), 50 * Scale + 5, 90 * Scale - 1, 90 * Scale}

\* What SARIMAX(...).fit().get_forecast(steps).predicted_mean can be: the
\* optimizer is outside the program, so any vector of the requested length.
PredictedMeans(steps) == [1..steps -> ForecastValues]

-----------------------------------------------------------------------------
(* The preference file and the number inputs, lines 58-80 and 118, 137-140 *)

Columns == {"lits_disponibles", "infirmiers", "gants", "compresses", "seringues"}

Cell(n) == [na |-> FALSE, v |-> n]
NaN == [na |-> TRUE, v |-> 0]

\* The DataFrame main() builds at lines 88-94.
DefaultRow ==
    [c \in Columns |-> IF c = "lits_disponibles" THEN Cell(100) ELSE Cell(2)]

\* load_user_data: the rows of the file; no rows when the file is missing or
\* holds no row (both give the empty DataFrame with the five columns).
LoadUserDataRows(f) == IF f.state = "table" THEN f.rows ELSE <<>>

\* Line 63: pd.read_csv of a file of zero bytes raises EmptyDataError, before
\* the test of line 64 is reached.
LoadUserDataRaises(f) == f.state = "blank"

\* safe_convert(value, default_value)
safe_convert(value, default_value) == IF ~value.na THEN value.v ELSE default_value

\* A widget that takes any default.
NumberInputNeverRaises(min_value, value) == FALSE

\* st.number_input(min_value=1, value=value) accepts its default only when it
\* is not below the minimum; otherwise Streamlit raises.
NumberInputRaises(min_value, value) == value < min_value

\* What the widget returns: its default, or a number the operator typed, never
\* below the minimum.
NumberInputValues(min_value, value, typed) == {n \in {value} \cup typed : n >= min_value}

\* An assignment that is lost: the frame keeps what was loaded.
SetAtLost(df, column, n) == df

\* df.at[0, column] = n
SetAt(df, column, n) == [df EXCEPT ![1] = [@ EXCEPT ![column] = Cell(n)]]

-----------------------------------------------------------------------------
(* The bed occupancy column, lines 121-132 *)

\* (pred / lits_disponibles) * 100 >= 90, with pred in 1/Scale units.
RateAtLeast90(pred, lits) == pred * 100 >= 90 * lits * Scale

\* The loop without its break: every month at or above 90% is named.
RECURSIVE ScanFromNoBreak(_, _, _)
ScanFromNoBreak(fc, lits, i) ==
    IF i >= Len(fc) THEN <<>>
    ELSE (IF RateAtLeast90(fc[i + 1], lits) THEN <<i + 1>> ELSE <<>>)
         \o ScanFromNoBreak(fc, lits, i + 1)

\* The for loop of lines 124-129 from index i (0-based) on: the months named
\* by st.warning, in order.  The break ends the loop at the first of them.
RECURSIVE ScanFrom(_, _, _)
ScanFrom(fc, lits, i) ==
    IF i >= Len(fc) THEN <<>>
    ELSE IF RateAtLeast90(fc[i + 1], lits) THEN <<i + 1>>
    ELSE ScanFrom(fc, lits, i + 1)

\* Lines 123-129: the scan runs only when a forecast was obtained.
NamedMonths(fc, lits) == IF fc.is_none THEN <<>> ELSE ScanFrom(fc.values, lits, 0)

\* Lines 131-132, inside the same guard.
StableShown(fc, named) == ~fc.is_none /\ named = <<>>

-----------------------------------------------------------------------------
(* The material column, lines 148-157 *)

NoTotals == [shown |-> FALSE, infirmiers |-> 0, gants |-> 0, compresses |-> 0, seringues |-> 0]

RECURSIVE SeqSum(_)
\* forecast.sum(), in 1/Scale units
SeqSum(s) == IF s = <<>> THEN 0 ELSE Head(s) + SeqSum(Tail(s))

\* int(x) for x = num / Scale: truncation toward zero.
PyInt(num) == IF num >= 0 THEN num \div Scale ELSE 0 - ((0 - num) \div Scale)

total_infirmiers(r, fc) == PyInt(r.infirmiers * SeqSum(fc))

\* Gloves derived from the forecast sum instead of the nurse total.
total_gants_per_patient(r, fc) == PyInt(SeqSum(fc) * r.gants)

total_gants(r, fc) == total_infirmiers(r, fc) * r.gants
total_compresses(r, fc) == PyInt(SeqSum(fc) * r.compresses)
total_seringues(r, fc) == PyInt(SeqSum(fc) * r.seringues)

Totals(r, fc) ==
    [shown |-> TRUE,
     infirmiers |-> total_infirmiers(r, fc),
     gants |-> total_gants(r, fc),
     compresses |-> total_compresses(r, fc),
     seringues |-> total_seringues(r, fc)]

\* Totals derived without looking at whether a forecast was obtained.
ShownTotalsUnguarded(fc, r) == Totals(r, fc.values)

\* Lines 148-157: the totals are derived only when a forecast was obtained.
ShownTotals(fc, r) == IF fc.is_none THEN NoTotals ELSE Totals(r, fc.values)

-----------------------------------------------------------------------------
(* Inputs of the model *)

\* Entry date cells: the first and the 31st of the first three months (the
\* 31st of February is no date), and a cell that is no date at all.
RawDates ==
    {[fmt |-> "ymd", y |-> BaseYear, m |-> m, d |-> d] : m \in 1..3, d \in {1, 31}}
    \cup {[fmt |-> "text", y |-> 0, m |-> 0, d |-> 0]}

\* Stay length cells: numbers from -1 to MaxStay, and a cell that is no number.
RawStays ==
    {[fmt |-> "num", v |-> k] : k \in (0 - 1)..MaxStay} \cup {[fmt |-> "text", v |-> 0]}

RawRows == [date : RawDates, stay : RawStays]

RowSeqs(n) == UNION {[1..k -> RawRows] : k \in 0..n}

\* Current dates: the day before and the last day of the first month, the
\* last day of the second, and a day after every contribution of the model.
Todays == {MonthEnd(0) - 1, MonthEnd(0), MonthEnd(1), MonthEnd(5)}

\* Numbers the operator types into the capacity input and the ratio inputs.
TypedLits == {50}
TypedRatios == {[infirmiers |-> 3, gants |-> 4, compresses |-> 5, seringues |-> 7]}

StoredRows ==
    {[c \in Columns |-> IF c = "lits_disponibles" THEN l ELSE r] :
        l \in {NaN, Cell(0), Cell(100)}, r \in {NaN, Cell(0), Cell(1)}}

\* The row of a file that lacks one of the five columns.
PartialRows ==
    {[c \in Columns \ {absent} |-> Cell(1)] : absent \in {"lits_disponibles"}}

\* user_data.csv: missing, of zero bytes, a header with no row, or one row.
Files ==
    {[state |-> "missing", rows |-> <<>>], [state |-> "table", rows |-> <<>>]}
    \cup {[state |-> "table", rows |-> <<row>>] : row \in StoredRows}
    \cup {[state |-> "blank", rows |-> <<>>]}
    \cup {[state |-> "table", rows |-> <<row>>] : row \in PartialRows}

-----------------------------------------------------------------------------
(* The script run *)

Fresh ==
    /\ exc = "none"
    /\ user_data = <<>>
    /\ df_monthly = <<>>
    /\ df_monthly_agg = <<>>
    /\ forecast_steps = 0
    /\ forecast = NoForecast
    /\ st_error = FALSE
    /\ lits_disponibles = 0
    /\ crise = FALSE
    /\ st_warning = <<>>
    /\ st_success = FALSE
    /\ ratios = [infirmiers |-> 0, gants |-> 0, compresses |-> 0, seringues |-> 0]
    /\ totals = NoTotals

\* A run of main() from its first line.
Init ==
    /\ records \in RowSeqs(1)
    /\ today \in {MonthEnd(0) - 1, MonthEnd(5)}
    /\ file \in Files
    /\ pc = "load_user_data"
    /\ Fresh

\* load_and_prepare_data applied to every admissions file of the bounds.
InitBuild ==
    /\ records \in RowSeqs(MaxRecords)
    /\ today \in Todays
    /\ file = [state |-> "missing", rows |-> <<>>]
    /\ pc = "load_data"
    /\ Fresh

\* Lines 84-94.
LoadUserData ==
    /\ pc = "load_user_data"
    /\ IF LoadUserDataRaises(file)
       THEN /\ exc' = "EmptyDataError"
            /\ pc' = "raised"
            /\ user_data' = user_data
       ELSE LET loaded == LoadUserDataRows(file) IN
            /\ user_data' = IF loaded = <<>> THEN <<DefaultRow>> ELSE loaded
            /\ pc' = "load_data"
            /\ exc' = exc
    /\ UNCHANGED <<records, today, file, df_monthly, df_monthly_agg,
                   forecast_steps, forecast, st_error, lits_disponibles, crise,
                   st_warning, st_success, ratios, totals>>

\* Line 99.
LoadAndPrepareData ==
    /\ pc = "load_data"
    /\ \E negRaises \in BOOLEAN :
         LET res == LoadAndPrepareResult(records, today, negRaises) IN
         /\ exc' = res.exc
         /\ df_monthly' = res.daily
         /\ df_monthly_agg' = res.agg
         /\ pc' = IF res.exc = "none" THEN "forecast" ELSE "raised"
    /\ UNCHANGED <<records, today, file, user_data, forecast_steps, forecast,
                   st_error, lits_disponibles, crise, st_warning, st_success,
                   ratios, totals>>

\* Lines 101-102, the fit succeeding: forecast_sarima returns the predicted means.
ForecastOk ==
    /\ pc = "forecast"
    /\ df_monthly_agg # <<>>
    /\ \E steps \in 1..MaxSteps : \E fc \in PredictedMeans(steps) :
         /\ forecast_steps' = steps
         /\ forecast' = [is_none |-> FALSE, values |-> fc]
    /\ pc' = "col1"
    /\ UNCHANGED <<records, today, file, exc, user_data, df_monthly, df_monthly_agg,
                   st_error, lits_disponibles, crise, st_warning, st_success,
                   ratios, totals>>

\* Lines 101-102, an exception inside the try: st.error, and None is returned.
\* (On an empty series df.index[-1] raises at the latest.)
ForecastFails ==
    /\ pc = "forecast"
    /\ \E steps \in 1..MaxSteps : forecast_steps' = steps
    /\ forecast' = NoForecast
    /\ st_error' = TRUE
    /\ pc' = "col1"
    /\ UNCHANGED <<records, today, file, exc, user_data, df_monthly, df_monthly_agg,
                   lits_disponibles, crise, st_warning, st_success, ratios, totals>>

\* What reading one stored column into its number input raises:
\* user_data[column] raises KeyError when the frame has no such column, and
\* the widget rejects a default below its minimum of 1.
ColumnFailure(column, default_value) ==
    IF column \notin DOMAIN user_data[1] THEN "KeyError"
    ELSE IF NumberInputRaises(1, safe_convert(user_data[1][column], default_value))
         THEN "StreamlitAPIException"
         ELSE "none"

\* Lines 116-132.
CapacityColumn ==
    /\ pc = "col1"
    /\ LET value == safe_convert(user_data[1]["lits_disponibles"], 100) IN
       IF ColumnFailure("lits_disponibles", 100) # "none"
       THEN /\ exc' = ColumnFailure("lits_disponibles", 100)
            /\ pc' = "raised"
            /\ UNCHANGED <<user_data, lits_disponibles, crise, st_warning, st_success>>
       ELSE \E lits \in NumberInputValues(1, value, TypedLits) :
            LET named == NamedMonths(forecast, lits)
            IN  /\ lits_disponibles' = lits
                /\ user_data' = SetAt(user_data, "lits_disponibles", lits)
                /\ st_warning' = named
                /\ crise' = (named # <<>>)
                /\ st_success' = StableShown(forecast, named)
                /\ pc' = "col3"
                /\ exc' = exc
    /\ UNCHANGED <<records, today, file, df_monthly, df_monthly_agg, forecast_steps,
                   forecast, st_error, ratios, totals>>

StoredRatio(column) == safe_convert(user_data[1][column], 2)

\* The four ratio inputs in the order of lines 137-140.
RatioColumns == <<"infirmiers", "gants", "compresses", "seringues">>

\* What the four inputs would raise, in that order; the first ends the run.
RatioFailures ==
    SelectSeq([k \in 1..4 |-> ColumnFailure(RatioColumns[k], 2)], LAMBDA e : e # "none")

\* Lines 134-157.
MaterialColumn ==
    /\ pc = "col3"
    /\ IF RatioFailures # <<>>
       THEN /\ exc' = Head(RatioFailures)
            /\ pc' = "raised"
            /\ UNCHANGED <<user_data, ratios, totals>>
       ELSE \E typed \in TypedRatios \cup {[c \in Columns \ {"lits_disponibles"} |-> StoredRatio(c)]} :
            /\ ratios' = typed
            /\ user_data' = SetAt(SetAt(SetAt(SetAt(user_data,
                                "infirmiers", typed.infirmiers),
                                "gants", typed.gants),
                                "compresses", typed.compresses),
                                "seringues", typed.seringues)
            /\ totals' = ShownTotals(forecast, typed)
            /\ pc' = "save"
            /\ exc' = exc
    /\ UNCHANGED <<records, today, file, df_monthly, df_monthly_agg, forecast_steps,
                   forecast, st_error, lits_disponibles, crise, st_warning, st_success>>

\* Line 160 and save_user_data.
SaveUserData ==
    /\ pc = "save"
    /\ file' = [state |-> "table", rows |-> user_data]
    /\ pc' = "done"
    /\ UNCHANGED <<records, today, exc, user_data, df_monthly, df_monthly_agg,
                   forecast_steps, forecast, st_error, lits_disponibles, crise,
                   st_warning, st_success, ratios, totals>>

Next ==
    \/ LoadUserData
    \/ LoadAndPrepareData
    \/ ForecastOk
    \/ ForecastFails
    \/ CapacityColumn
    \/ MaterialColumn
    \/ SaveUserData

Spec == Init /\ [][Next]_vars

\* Streamlit runs the script again on the next interaction; the preference
\* file is all that one run hands to the next.  (The results st.cache_data
\* keeps are not modelled: a later run may be given a different forecast.)
Rerun ==
    /\ pc \in {"done", "raised"}
    /\ pc' = "load_user_data"
    /\ exc' = "none"
    /\ user_data' = <<>>
    /\ df_monthly' = <<>>
    /\ df_monthly_agg' = <<>>
    /\ forecast_steps' = 0
    /\ forecast' = NoForecast
    /\ st_error' = FALSE
    /\ lits_disponibles' = 0
    /\ crise' = FALSE
    /\ st_warning' = <<>>
    /\ st_success' = FALSE
    /\ ratios' = [infirmiers |-> 0, gants |-> 0, compresses |-> 0, seringues |-> 0]
    /\ totals' = NoTotals
    /\ UNCHANGED <<records, today, file>>

\* Runs of main(), one after the other, on one admissions file that holds a
\* single well-formed row, with every preference file of the bounds.
InitPrefs ==
    /\ records = <<[date |-> [fmt |-> "ymd", y |-> BaseYear, m |-> 1, d |-> 1],
                    stay |-> [fmt |-> "num", v |-> 1]]>>
    /\ today = MonthEnd(5)
    /\ file \in Files
    /\ pc = "load_user_data"
    /\ Fresh

NextPrefs ==
    \/ LoadUserData
    \/ LoadAndPrepareData
    \/ ForecastOk
    \/ ForecastFails
    \/ CapacityColumn
    \/ MaterialColumn
    \/ SaveUserData
    \/ Rerun

SpecPrefs == InitPrefs /\ [][NextPrefs]_vars

NextBuild == LoadAndPrepareData

SpecBuild == InitBuild /\ [][NextBuild]_vars

-----------------------------------------------------------------------------
(* Vocabulary of the properties *)

\* load_and_prepare_data has raised in this run (the slider comes after it).
BuildRaised == pc = "raised" /\ exc \in {"ValueError", "KeyError"} /\ forecast_steps = 0

\* load_and_prepare_data has returned its series in this run.
Built ==
    /\ pc \notin {"load_user_data", "load_data"}
    /\ exc # "EmptyDataError"
    /\ ~BuildRaised

\* A row with a parseable entry date and a numeric stay length k >= 0.
WellFormed(row) ==
    /\ ToDatetime(row.date) # NaT
    /\ row.stay.fmt = "num"
    /\ row.stay.v >= 0

\* The (record, day) pairs of the rows: row i occupies the days
\* entry, entry + 1, ..., entry + k - 1.
Contributions(rows) ==
    UNION {{<<i, ToDatetime(rows[i].date) + j>> : j \in 0..(rows[i].stay.v - 1)} :
              i \in {i \in DOMAIN rows : WellFormed(rows[i])}}

ContributionsOn(rows, d) == {c \in Contributions(rows) : c[2] = d}
ContributionsIn(rows, a) == {c \in Contributions(rows) : MonthOf(c[2]) = a}

\* The months the aggregation spans: from the month of the first occupied day
\* to the month of the last.
AggregatedMonths(rows) ==
    LET days == {c[2] : c \in Contributions(rows)} IN
    IF days = {} THEN {} ELSE MonthOf(SetMin(days))..MonthOf(SetMax(days))

ReturnedMonths == {MonthOf(df_monthly_agg[k].mois) : k \in DOMAIN df_monthly_agg}

\* The capacity column has run to its end in this run, with a forecast.
Scanned == lits_disponibles >= 1 /\ ~forecast.is_none

\* The forecast indices (1-based) with predicted_value / capacity >= 0.90.
Breaches ==
    {i \in DOMAIN forecast.values : 10 * forecast.values[i] >= 9 * lits_disponibles * Scale}

ForecastSum == SeqSum(forecast.values)

-----------------------------------------------------------------------------
(* Properties *)

\* C1: the capacity scan reports a breach exactly when some forecast value v
\* has v / capacity >= 0.90; the one month it names is the first such index
\* (0-based index i named as month i + 1), whatever the later values are; with
\* no such index it reports no breach and shows the stable message.
C1_FirstBreach ==
    Scanned =>
        /\ crise <=> (Breaches # {})
        /\ Breaches # {} => (st_warning = <<SetMin(Breaches)>> /\ ~st_success)
        /\ Breaches = {} => (st_warning = <<>> /\ st_success)

\* A scan that named month 1 although month 2 is larger and also at or above 90%.
C1_Witness ==
    /\ Scanned
    /\ st_warning = <<1>>
    /\ Len(forecast.values) >= 2
    /\ forecast.values[2] > forecast.values[1]
    /\ 2 \in Breaches

\* C2: with every row well-formed, the per-day sums hold, for each day, the
\* number of rows whose stay [entry, entry + k) covers it, and each month of
\* the returned series holds the number of (record, day) pairs in that month.
C2_DayAndMonthCounts ==
    (Built /\ \A i \in DOMAIN records : WellFormed(records[i])) =>
        /\ DOMAIN df_monthly = {c[2] : c \in Contributions(records)}
        /\ \A d \in DOMAIN df_monthly :
              df_monthly[d] = Cardinality(ContributionsOn(records, d))
        /\ \A k \in DOMAIN df_monthly_agg :
              df_monthly_agg[k].patients =
                  Cardinality(ContributionsIn(records, MonthOf(df_monthly_agg[k].mois)))

\* Two well-formed rows, one with k = 0 and one whose stay of two days starts
\* on the last day of a month, returned as two months of one day each.
C2_Witness ==
    /\ Built
    /\ Len(records) = 2
    /\ \A i \in DOMAIN records : WellFormed(records[i])
    /\ \E i \in DOMAIN records : records[i].stay.v = 0
    /\ \E i \in DOMAIN records :
          /\ records[i].stay.v = 2
          /\ ToDatetime(records[i].date) = MonthEnd(0)
    /\ Len(df_monthly_agg) = 2
    /\ df_monthly_agg[1].patients = 1
    /\ df_monthly_agg[2].patients = 1

\* C3: the returned series has strictly increasing month keys, each the next
\* calendar month after the one before (no duplicate, no gap), and no negative value.
C3_RegularGrid ==
    Built =>
        /\ \A k \in DOMAIN df_monthly_agg :
              /\ df_monthly_agg[k].patients >= 0
              /\ df_monthly_agg[k].mois = MonthEnd(MonthOf(df_monthly_agg[k].mois))
        /\ \A k \in 1..(Len(df_monthly_agg) - 1) :
              /\ df_monthly_agg[k].mois < df_monthly_agg[k + 1].mois
              /\ MonthOf(df_monthly_agg[k + 1].mois) = MonthOf(df_monthly_agg[k].mois) + 1

\* A returned series of three months whose middle month has no contribution.
C3_Witness ==
    /\ Built
    /\ Len(df_monthly_agg) = 3
    /\ df_monthly_agg[1].patients > 0
    /\ df_monthly_agg[2].patients = 0
    /\ df_monthly_agg[3].patients > 0

\* C4: for a forecast of positive sum S, nurses = floor(nurses_per_patient * S),
\* gloves = nurses * gloves_per_nurse, compresses = floor(compresses_per_patient * S),
\* syringes = floor(syringes_per_patient * S), S summed over the whole forecast.
C4_TotalsFormulas ==
    (totals.shown /\ ForecastSum > 0) =>
        /\ totals.infirmiers = (ratios.infirmiers * ForecastSum) \div Scale
        /\ totals.gants = ((ratios.infirmiers * ForecastSum) \div Scale) * ratios.gants
        /\ totals.compresses = (ratios.compresses * ForecastSum) \div Scale
        /\ totals.seringues = (ratios.seringues * ForecastSum) \div Scale

\* Totals shown for a two-month forecast of positive, fractional sum, with four
\* different ratios typed in.
C4_Witness ==
    /\ totals.shown
    /\ Len(forecast.values) = 2
    /\ ForecastSum > 0
    /\ ForecastSum % Scale # 0
    /\ ratios.infirmiers = 3
    /\ ratios.gants = 4
    /\ totals.gants = totals.infirmiers * 4

\* C5: no resource total is negative, and a forecast of sum S <= 0 gives four
\* totals of 0 (S clamped to a minimum of 0).
C5_TotalsClamped ==
    totals.shown =>
        /\ totals.infirmiers >= 0
        /\ totals.gants >= 0
        /\ totals.compresses >= 0
        /\ totals.seringues >= 0
        /\ ForecastSum <= 0 =>
              /\ totals.infirmiers = 0
              /\ totals.gants = 0
              /\ totals.compresses = 0
              /\ totals.seringues = 0

StoredCapacityBelowOne ==
    /\ file.state = "table"
    /\ file.rows # <<>>
    /\ "lits_disponibles" \in DOMAIN file.rows[1]
    /\ safe_convert(file.rows[1]["lits_disponibles"], 100) < 1

NoVerdict == ~crise /\ st_warning = <<>> /\ ~st_success

\* C7, as the specification states it: a capacity of zero or less makes the
\* capacity evaluation fail with InvalidCapacityError, without ratio or verdict.
C7_InvalidCapacityError ==
    (StoredCapacityBelowOne /\ pc = "raised" /\ ~BuildRaised) =>
        (exc = "InvalidCapacityError" /\ NoVerdict)

\* C7, as the code has it: the scan never runs with a capacity below 1.  The
\* capacity it uses comes from a number input of minimum 1, and a stored
\* capacity below 1 makes that input raise Streamlit's exception: the run
\* ends there with no ratio, no verdict and nothing saved.
C7_CapacityAtLeastOne ==
    /\ (crise \/ st_warning # <<>> \/ st_success) => lits_disponibles >= 1
    /\ pc \in {"col3", "save", "done"} => lits_disponibles >= 1
    /\ StoredCapacityBelowOne =>
          /\ pc \notin {"col3", "save", "done"}
          /\ lits_disponibles = 0
          /\ NoVerdict
          /\ (pc = "raised" /\ ~BuildRaised) => exc = "StreamlitAPIException"

\* A run with a forecast in hand, ended by the capacity input on a stored 0.
C7_Witness ==
    /\ StoredCapacityBelowOne
    /\ ~forecast.is_none
    /\ pc = "raised"
    /\ exc = "StreamlitAPIException"
    /\ NoVerdict

\* forecast_sarima has returned in this run.
ForecastCalled == forecast_steps >= 1

\* C8: on a series of fewer than 24 months forecast_sarima returns no forecast
\* vector, whatever the horizon.
C8_ShortSeriesRejected ==
    (ForecastCalled /\ Len(df_monthly_agg) < 24) => forecast.is_none

\* C9: in a run whose model fit failed, the failure is shown and the run shows
\* no breach warning, no stable message and no resource totals; a verdict or
\* totals are shown only in a run that obtained a forecast.
C9_NoForecastNoVerdict ==
    /\ (ForecastCalled /\ forecast.is_none) =>
          (st_error /\ NoVerdict /\ ~totals.shown)
    /\ (~NoVerdict \/ totals.shown) => (ForecastCalled /\ ~forecast.is_none /\ ~st_error)

\* A run that went to its end after a failed fit.
C9_Witness ==
    /\ pc = "done"
    /\ ForecastCalled
    /\ forecast.is_none
    /\ st_error

\* C10: load_and_prepare_data never raises because of a malformed row: with at
\* least one well-formed row of positive stay in the file, it returns, and the
\* malformed rows contribute no day while the others are counted as usual.
C10_MalformedRowsAbsorbed ==
    (pc \notin {"load_user_data", "load_data"}
        /\ \E i \in DOMAIN records : WellFormed(records[i]) /\ records[i].stay.v > 0) =>
        /\ ~BuildRaised
        /\ DOMAIN df_monthly = {c[2] : c \in Contributions(records)}
        /\ \A d \in DOMAIN df_monthly :
              df_monthly[d] = Cardinality(ContributionsOn(records, d))

\* The row made of the five values the number inputs returned in this run.
EnteredRow ==
    [c \in Columns |->
        Cell(IF c = "lits_disponibles" THEN lits_disponibles ELSE ratios[c])]

\* The ratio inputs have returned in this run.
RatiosEntered == pc \in {"save", "done"}

NothingStored == file.state \in {"missing", "blank"} \/ file.rows = <<>>

\* The stored record has no value for the column: the column is not in the
\* file, or its cell is empty.
FieldAbsent(column) ==
    /\ ~NothingStored
    /\ (column \notin DOMAIN file.rows[1] \/ file.rows[1][column].na)

\* C12: with nothing to load, loading does not fail and the run starts from
\* available beds = 100 and four ratios of 2; a stored record with an absent
\* field does not fail either, and the capacity input then starts from 100.
C12_DefaultsWhenNothingStored ==
    /\ exc # "EmptyDataError"
    /\ ~(pc = "raised" /\ exc = "KeyError" /\ ~BuildRaised)
    /\ (pc = "load_data" /\ NothingStored) => user_data = <<DefaultRow>>
    /\ (pc = "col3" /\ FieldAbsent("lits_disponibles")) =>
          lits_disponibles \in {100} \cup TypedLits

====
